---- MODULE Spec2Model ----
(***************************************************************************)
(* Model of tukeyized (src/src/lib.rs): Tukey's range test on a slice of   *)
(* f64.  One call of `trim` is a short sequential program (copy, sort,     *)
(* hinge, bounds, filter); the module runs one call (Spec) or two calls in *)
(* two threads on separate clones of the same sample (SpecConc).           *)
(*                                                                         *)
(* f64 is modelled as a saturating number line: a finite value is an       *)
(* integer count of quarter units in -FMAX..FMAX (quarters make the mean   *)
(* of two samples and 1.5 * range exact), a result beyond FMAX overflows   *)
(* to an infinity, inf - inf is NaN, and every comparison with NaN is      *)
(* false.  Rounding of in-range results is not modelled.                   *)
(***************************************************************************)
EXTENDS Integers, Sequences, FiniteSets

VARIABLES values, pc, order, q1, q3, min, max, out, idx

vars == <<values, pc, order, q1, q3, min, max, out, idx>>

\* ------------------------------------------------------------- bounds
\* Longest sample of a single call.
MaxLen == 6
\* Longest sample of the two concurrent calls.
MaxLenConc == 4
\* Largest finite f64 magnitude, in whole units.
MaxMag == 4

\* ------------------------------------------------------------- f64
FMAX == 4 * MaxMag
PInf == FMAX + 1
NInf == 0 - (FMAX + 1)
NaN == FMAX + 2

IsNaN(x) == x = NaN
IsFinite(x) == x >= 0 - FMAX /\ x <= FMAX

\* An exact result r, as f64 stores it.
Overflow(r) == IF r > FMAX THEN PInf ELSE IF r < 0 - FMAX THEN NInf ELSE r

FNeg(a) == IF IsNaN(a) THEN NaN ELSE 0 - a

FAdd(a, b) ==
    IF IsNaN(a) \/ IsNaN(b) THEN NaN
    ELSE IF IsFinite(a) /\ IsFinite(b) THEN Overflow(a + b)
    ELSE IF IsFinite(a) THEN b
    ELSE IF IsFinite(b) THEN a
    ELSE IF a = b THEN a
    ELSE NaN

FSub(a, b) == FAdd(a, FNeg(b))

\* a / 2.0
FHalf(a) == IF IsFinite(a) THEN a \div 2 ELSE a

\* 1.5 * a
FMul15(a) == IF IsFinite(a) THEN Overflow((3 * a) \div 2) ELSE a

\* a <= b, a >= b on f64: false when either side is NaN.
FLe(a, b) == ~IsNaN(a) /\ ~IsNaN(b) /\ a <= b
FGe(a, b) == FLe(b, a)

\* f64::partial_cmp
partial_cmp(a, b) ==
    IF IsNaN(a) \/ IsNaN(b) THEN "None"
    ELSE IF a < b THEN "Less"
    ELSE IF a > b THEN "Greater"
    ELSE "Equal"

\* ------------------------------------------------------------- sort
\* A comparator that treats incomparable values as equal.
CompareLenient(a, b) ==
    IF partial_cmp(a, b) = "None" THEN "Equal" ELSE partial_cmp(a, b)

\* The closure given to sort_by: the ordering, or a panic on NaN.
Compare(a, b) ==
    IF partial_cmp(a, b) = "None" THEN "Panic" ELSE partial_cmp(a, b)

Sorted(s) == [ok |-> TRUE, v |-> s]
SortPanic == [ok |-> FALSE, v |-> <<>>]

\* One insertion of the stable sort's insertion sort (slices of up to 20
\* elements): x moves left past every element it is less than.
RECURSIVE InsertTail(_, _)
InsertTail(s, x) ==
    IF s = <<>> THEN Sorted(<<x>>)
    ELSE LET last == s[Len(s)]
             c == Compare(x, last)
         IN  IF c = "Panic" THEN SortPanic
             ELSE IF c = "Less"
                  THEN LET r == InsertTail(SubSeq(s, 1, Len(s) - 1), x)
                       IN  IF r.ok THEN Sorted(Append(r.v, last)) ELSE SortPanic
                  ELSE Sorted(Append(s, x))

\* order.sort_by(..) on the first n elements of s.
RECURSIVE SortPrefix(_, _)
SortPrefix(s, n) ==
    IF n = 0 THEN Sorted(<<>>)
    ELSE LET r == SortPrefix(s, n - 1)
         IN  IF r.ok THEN InsertTail(r.v, s[n]) ELSE SortPanic

sort_by(s) == SortPrefix(s, Len(s))

\* ------------------------------------------------------------- median
Median(x) == [ok |-> TRUE, v |-> x]
MedianPanic == [ok |-> FALSE, v |-> 0]

\* &values[from..to], from and to counted from 0 as in the source.
Slice(s, from, to) == SubSeq(s, from + 1, to)

\* A median that takes the upper middle element of an even slice.
middleNoMean(vs) ==
    IF vs = <<>> THEN MedianPanic
    ELSE Median(vs[(Len(vs) \div 2) + 1])

middle(vs) ==
    IF vs = <<>> THEN MedianPanic
    ELSE LET mid == Len(vs) \div 2
         IN  IF Len(vs) % 2 = 1 THEN Median(vs[mid + 1])
             ELSE Median(FHalf(FAdd(vs[mid], vs[mid + 1])))

Quartiles(lower, upper) ==
    [ok |-> lower.ok /\ upper.ok, q1 |-> lower.v, q3 |-> upper.v]

\* A hinge whose odd case skips one element too many.
hingeSkipTwo(vs) ==
    LET mid == Len(vs) \div 2
    IN  IF Len(vs) % 2 = 0
        THEN Quartiles(middle(Slice(vs, 0, mid)), middle(Slice(vs, mid, Len(vs))))
        ELSE Quartiles(middle(Slice(vs, 0, mid)),
                       middle(Slice(vs, mid + 2, Len(vs))))

hinge(vs) ==
    LET mid == Len(vs) \div 2
    IN  IF Len(vs) % 2 = 0
        THEN Quartiles(middle(Slice(vs, 0, mid)), middle(Slice(vs, mid, Len(vs))))
        ELSE Quartiles(middle(Slice(vs, 0, mid)),
                       middle(Slice(vs, mid + 1, Len(vs))))

\* ------------------------------------------------------------- trim
\* The short-input test, off by one.
TooFewBelowTwo(n) == n < 2

\* values.len() < 3
TooFew(n) == n < 3

\* A filter with an exclusive fence.
KeepStrict(x, lo, hi) == FGe(x, lo) /\ FLe(x, hi) /\ x # lo /\ x # hi

\* A filter that forgets the upper fence.
KeepNoUpper(x, lo, hi) == FGe(x, lo)

\* The filter's predicate: *x >= min && *x <= max
Keep(x, lo, hi) == FGe(x, lo) /\ FLe(x, hi)

\* One working buffer for every call.
BufShared(t) == 1

\* The working copy `order` of call t: a fresh vector of that call.
Buf(t) == t

\* A filter that walks the sorted copy.
FilterSourceSorted(t) == order[Buf(t)]

\* The sequence the filter walks: the caller's slice.
FilterSource(t) == values[t]

\* The whole call as a function: the returned vector, or a panic.
Returned(s) == [ok |-> TRUE, v |-> s]
Panicked == [ok |-> FALSE, v |-> <<>>]

trim(vs) ==
    IF TooFew(Len(vs)) THEN Returned(vs)
    ELSE LET o == sort_by(vs)
         IN  IF ~o.ok THEN Panicked
             ELSE LET h == hinge(o.v)
                  IN  IF ~h.ok THEN Panicked
                      ELSE LET range == FSub(h.q3, h.q1)
                               lo == FSub(h.q1, FMul15(range))
                               hi == FAdd(h.q3, FMul15(range))
                               Inside(x) == Keep(x, lo, hi)
                           IN  Returned(SelectSeq(vs, Inside))

\* ------------------------------------------------------------- state
Threads == {1, 2}

\* Sample values: zero, one unit, the largest finite magnitudes, an
\* infinity, NaN.
Vals == {0 - FMAX, 0, 4, FMAX, PInf, NaN}

SeqsUpTo(n) == UNION {[1..k -> Vals] : k \in 0..n}

Blank == [t \in Threads |-> 0]
Empty == [t \in Threads |-> <<>>]

InitLocals ==
    /\ order = Empty
    /\ q1 = Blank
    /\ q3 = Blank
    /\ min = Blank
    /\ max = Blank
    /\ out = Empty
    /\ idx = Blank

\* One call of tukeyize on a sample.
Init ==
    /\ \E s \in SeqsUpTo(MaxLen) : values = [t \in Threads |-> s]
    /\ pc = [t \in Threads |-> IF t = 1 THEN "ready" ELSE "idle"]
    /\ InitLocals

\* Two threads, each about to call tukeyize on its own clone of the sample.
InitConc ==
    /\ \E s \in SeqsUpTo(MaxLenConc) : values = [t \in Threads |-> s]
    /\ pc = [t \in Threads |-> "ready"]
    /\ InitLocals

\* trim, lines 36-39: the short-circuit, or the working copy.
TrimEnter(t) ==
    /\ pc[t] = "ready"
    /\ IF TooFew(Len(values[t]))
       THEN /\ out' = [out EXCEPT ![t] = values[t]]
            /\ pc' = [pc EXCEPT ![t] = "done"]
            /\ order' = order
       ELSE /\ order' = [order EXCEPT ![Buf(t)] = values[t]]
            /\ pc' = [pc EXCEPT ![t] = "sort"]
            /\ out' = out
    /\ UNCHANGED <<values, q1, q3, min, max, idx>>

\* trim, lines 40-44: the sort, which panics on NaN.
TrimSort(t) ==
    /\ pc[t] = "sort"
    /\ LET r == sort_by(order[Buf(t)])
       IN  IF r.ok
           THEN /\ order' = [order EXCEPT ![Buf(t)] = r.v]
                /\ pc' = [pc EXCEPT ![t] = "hinge"]
           ELSE /\ order' = order
                /\ pc' = [pc EXCEPT ![t] = "panic_nan"]
    /\ UNCHANGED <<values, q1, q3, min, max, out, idx>>

\* trim, line 45: the quartiles; middle panics on an empty slice.
TrimHinge(t) ==
    /\ pc[t] = "hinge"
    /\ LET h == hinge(order[Buf(t)])
       IN  IF h.ok
           THEN /\ q1' = [q1 EXCEPT ![t] = h.q1]
                /\ q3' = [q3 EXCEPT ![t] = h.q3]
                /\ pc' = [pc EXCEPT ![t] = "bounds"]
           ELSE /\ UNCHANGED <<q1, q3>>
                /\ pc' = [pc EXCEPT ![t] = "panic_empty"]
    /\ UNCHANGED <<values, order, min, max, out, idx>>

\* trim, lines 46-48: range, min, max.
TrimBounds(t) ==
    /\ pc[t] = "bounds"
    /\ LET range == FSub(q3[t], q1[t])
       IN  /\ min' = [min EXCEPT ![t] = FSub(q1[t], FMul15(range))]
           /\ max' = [max EXCEPT ![t] = FAdd(q3[t], FMul15(range))]
    /\ idx' = [idx EXCEPT ![t] = 1]
    /\ pc' = [pc EXCEPT ![t] = "filter"]
    /\ UNCHANGED <<values, order, q1, q3, out>>

\* trim, lines 49-53: the iterator's next element, kept or dropped.
TrimFilter(t) ==
    /\ pc[t] = "filter"
    /\ idx[t] <= Len(FilterSource(t))
    /\ LET x == FilterSource(t)[idx[t]]
       IN  out' = [out EXCEPT ![t] =
                      IF Keep(x, min[t], max[t]) THEN Append(@, x) ELSE @]
    /\ idx' = [idx EXCEPT ![t] = @ + 1]
    /\ UNCHANGED <<values, pc, order, q1, q3, min, max>>

\* trim, line 53: the iterator is exhausted and collect() returns.
TrimReturn(t) ==
    /\ pc[t] = "filter"
    /\ idx[t] > Len(FilterSource(t))
    /\ pc' = [pc EXCEPT ![t] = "done"]
    /\ UNCHANGED <<values, order, q1, q3, min, max, out, idx>>

Next ==
    \E t \in Threads :
        \/ TrimEnter(t)
        \/ TrimSort(t)
        \/ TrimHinge(t)
        \/ TrimBounds(t)
        \/ TrimFilter(t)
        \/ TrimReturn(t)

Spec == Init /\ [][Next]_vars

SpecConc == InitConc /\ [][Next]_vars

\* ------------------------------------------------------------- properties
Range(s) == {s[i] : i \in 1..Len(s)}
NoNaN(s) == \A i \in 1..Len(s) : ~IsNaN(s[i])
HasNaN(s) == \E i \in 1..Len(s) : IsNaN(s[i])
Count(s, v) == Cardinality({i \in 1..Len(s) : s[i] = v})

\* The ascending arrangement of a NaN-free s, by rank: position i holds the
\* value with fewer than i elements below it and at least i not above it.
Ascending(s) ==
    [i \in 1..Len(s) |->
        CHOOSE v \in Range(s) :
            /\ Cardinality({j \in 1..Len(s) : s[j] < v}) < i
            /\ i <= Cardinality({j \in 1..Len(s) : s[j] <= v})]

\* Element i of s, counted from 0.
At(s, i) == s[i + 1]

\* The median of the elements [from, to) of a sorted s, by index.
MedianAt(s, from, to) ==
    LET k == to - from
    IN  IF k % 2 = 1 THEN At(s, from + (k \div 2))
        ELSE FHalf(FAdd(At(s, from + (k \div 2) - 1), At(s, from + (k \div 2))))

HingeQ1(s) == MedianAt(s, 0, Len(s) \div 2)
HingeQ3(s) ==
    IF Len(s) % 2 = 0 THEN MedianAt(s, Len(s) \div 2, Len(s))
    ELSE MedianAt(s, (Len(s) \div 2) + 1, Len(s))

FenceLo(a, b) == FSub(a, FMul15(FSub(b, a)))
FenceHi(a, b) == FAdd(b, FMul15(FSub(b, a)))

\* s is t with zero or more elements deleted.
RECURSIVE IsSubseq(_, _)
IsSubseq(s, t) ==
    IF s = <<>> THEN TRUE
    ELSE IF t = <<>> THEN FALSE
    ELSE IF Head(s) = Head(t) THEN IsSubseq(Tail(s), Tail(t))
    ELSE IsSubseq(s, Tail(t))

Panics == {"panic_nan", "panic_empty"}
Filterable(t) == Len(values[t]) >= 3 /\ NoNaN(values[t])
AllFinite(s) == \A i \in 1..Len(s) : IsFinite(s[i])

\* C1: a call on a NaN-free sample of length >= 3 returns, and what it
\* returns holds every value inside the inclusive fence
\* [Q1 - 1.5*(Q3-Q1), Q3 + 1.5*(Q3-Q1)] as often as the sample does and no
\* value outside it, (Q1, Q3) being the hinge of the ascending sample.
C1_ExactlyTheFence ==
    \A t \in Threads :
        Filterable(t) =>
            /\ pc[t] \notin Panics
            /\ pc[t] = "done" =>
                 LET s == Ascending(values[t])
                     lo == FenceLo(HingeQ1(s), HingeQ3(s))
                     hi == FenceHi(HingeQ1(s), HingeQ3(s))
                 IN  \A v \in Range(values[t]) \cup Range(out[t]) :
                         Count(out[t], v) =
                             IF FLe(lo, v) /\ FLe(v, hi)
                             THEN Count(values[t], v) ELSE 0

\* A call that kept some values and removed others, with a finite fence of
\* positive width.
C1_Witness ==
    \E t \in Threads :
        /\ pc[t] = "done" /\ Filterable(t)
        /\ IsFinite(min[t]) /\ IsFinite(max[t]) /\ min[t] < max[t]
        /\ out[t] # <<>> /\ Len(out[t]) < Len(values[t])

\* C2 as stated, on samples of finite values whose hinge values are
\* finite: when Q1 = Q3, nothing is removed.
C2_NoSpreadKeepsAll ==
    \A t \in Threads :
        (pc[t] = "done" /\ Filterable(t) /\ AllFinite(values[t])
            /\ q1[t] = q3[t] /\ IsFinite(q1[t])) =>
            out[t] = values[t]

\* C2 amended: when the hinge values are equal, a call on a sample of
\* finite values keeps exactly the elements equal to Q1, in input order.
C2_NoSpreadKeepsQ1 ==
    \A t \in Threads :
        (pc[t] = "done" /\ Filterable(t) /\ AllFinite(values[t])
            /\ q1[t] = q3[t]) =>
            LET IsQ1(x) == x = q1[t]
            IN  out[t] = SelectSeq(values[t], IsQ1)

\* Equal finite hinge values, some elements kept and some removed.
C2_Witness ==
    \E t \in Threads :
        /\ pc[t] = "done" /\ Filterable(t) /\ AllFinite(values[t])
        /\ q1[t] = q3[t] /\ IsFinite(q1[t])
        /\ out[t] # <<>> /\ out[t] # values[t]

\* C3: a call on a sample of length 0, 1 or 2 returns the sample itself and
\* never sorts, computes quartiles or panics.
C3_ShortInputIdentity ==
    \A t \in Threads :
        Len(values[t]) < 3 =>
            /\ pc[t] \in {"idle", "ready", "done"}
            /\ order[t] = <<>>
            /\ pc[t] = "done" => out[t] = values[t]

\* A returned two-element sample that holds a NaN.
C3_Witness ==
    \E t \in Threads :
        /\ pc[t] = "done" /\ Len(values[t]) = 2
        /\ HasNaN(values[t]) /\ out[t] = values[t]

\* C4: a call on a sample of length >= 3 that holds a NaN gets no further
\* than the sort, where it panics; it returns nothing and filters nothing.
C4_FatalOnNaN ==
    \A t \in Threads :
        (Len(values[t]) >= 3 /\ HasNaN(values[t])) =>
            /\ pc[t] \in {"idle", "ready", "sort", "panic_nan"}
            /\ out[t] = <<>>

\* The sort panicked on a sample whose only NaN is its last element.
C4_Witness ==
    \E t \in Threads :
        /\ pc[t] = "panic_nan" /\ Len(values[t]) >= 3
        /\ IsNaN(values[t][Len(values[t])])
        /\ NoNaN(SubSeq(values[t], 1, Len(values[t]) - 1))

\* C5: what the filter has collected is at every moment a subsequence of the
\* sample: elements of the sample, in the sample's order, no more of them
\* than the sample has.
C5_Subsequence ==
    \A t \in Threads :
        /\ IsSubseq(out[t], values[t])
        /\ Len(out[t]) <= Len(values[t])

\* A call that removed something and returned values in descending order,
\* which the sorted copy never holds.
C5_Witness ==
    \E t \in Threads :
        /\ pc[t] = "done" /\ Filterable(t)
        /\ Len(out[t]) < Len(values[t])
        /\ \E i \in 1..Len(out[t]) : \E j \in 1..Len(out[t]) :
               i < j /\ out[t][i] > out[t][j]

Outcome(t) == [returned |-> pc[t] = "done", v |-> out[t]]

\* C6: of two concurrent calls on clones of one sample, each ends as a call
\* on its own does (the same vector, or a panic), so both end alike.
C6_ConcurrentCallsAgree ==
    /\ \A t \in Threads :
           /\ pc[t] = "done" =>
                 trim(values[t]).ok /\ out[t] = trim(values[t]).v
           /\ pc[t] \in Panics => ~trim(values[t]).ok
    /\ (\A t \in Threads : pc[t] \in Panics \cup {"done"}) =>
           Outcome(1) = Outcome(2)

\* Both calls returned on an unsorted sample that went through the sort.
C6_Witness ==
    /\ \A t \in Threads : pc[t] = "done" /\ Filterable(t)
    /\ values[1] = values[2]
    /\ values[1] # Ascending(values[1])
    /\ out[1] = out[2] /\ out[1] # <<>>

\* C7: middle never gets an empty slice: no call ends in the empty-median
\* panic, and hinge is reached only with a copy of length >= 3, whose two
\* halves hold at least one element each.
C7_NoEmptyMedian ==
    \A t \in Threads :
        /\ pc[t] # "panic_empty"
        /\ pc[t] = "hinge" =>
             LET n == Len(order[t])
             IN  /\ n >= 3
                 /\ n \div 2 >= 1
                 /\ n - (n \div 2) - (n % 2) >= 1

\* hinge has returned on the smallest sample that reaches it.
C7_Witness ==
    \E t \in Threads : pc[t] = "bounds" /\ Len(values[t]) = 3

\* C8 as stated, on samples of finite values: on a NaN-free sample of
\* length >= 3 the computed values satisfy min <= Q1 <= Q3 <= max.
C8_BoundsOrdered ==
    \A t \in Threads :
        (pc[t] \in {"filter", "done"} /\ Filterable(t)
            /\ AllFinite(values[t])) =>
            /\ FLe(min[t], q1[t])
            /\ FLe(q1[t], q3[t])
            /\ FLe(q3[t], max[t])

\* C9: after hinge, Q1 is the median of elements [0, mid) of the sorted
\* copy and Q3 the median of [mid, n) for even n, of [mid+1, n) for odd n;
\* a median is the middle element of an odd slice and the mean of the two
\* middle elements of an even one.
C9_HingeHalves ==
    \A t \in Threads :
        pc[t] \in {"bounds", "filter", "done"} /\ Len(values[t]) >= 3 =>
            /\ q1[t] = HingeQ1(order[t])
            /\ q3[t] = HingeQ3(order[t])

\* hinge has returned on an odd-length sample whose lower half is even and
\* whose Q1 is a mean that is no element of the sample.
C9_Witness ==
    \E t \in Threads :
        /\ pc[t] = "bounds" /\ Len(values[t]) = 5
        /\ IsFinite(q1[t]) /\ q1[t] \notin Range(values[t])

\* C10 as stated, on samples of finite values: a call on a NaN-free sample
\* of length >= 3 never returns an empty vector.
C10_NeverEmpties ==
    \A t \in Threads :
        (pc[t] = "done" /\ Filterable(t) /\ AllFinite(values[t])) =>
            out[t] # <<>>

====
